---- MODULE Spec2Model ----
(***************************************************************************)
(* Job lifecycle of the auto video downloader.                             *)
(*                                                                         *)
(* Two programs are modelled, each with its own next-state relation:       *)
(*   - server.py: the single-process Flask server.  Every accepted         *)
(*     /enqueue starts a daemon thread running download_and_process; the   *)
(*     job dicts live in the in-memory map `jobs` and are copied to one    *)
(*     JSON file per job by _save_job.                                     *)
(*   - web/app.py + worker/server.py: the dashboard writes job files into  *)
(*     QUEUE_DIR, the worker loop polls that directory.                    *)
(***************************************************************************)
EXTENDS Integers, Sequences, FiniteSets, TLC

\* ------------------------------------------------------------------ bounds
MaxJobs == 2         \* job identifiers, and the jobs of SpecThreads
MaxPolledJobs == 1   \* the jobs submitted in Spec, SpecFault, SpecJob
MaxUrls == 2
MaxFaults == 2
MaxTorn == 1

\* uuid4 identifiers: never reused, never guessed.  JobIds are the ones
\* create_job can hand out, Bogus is an identifier no create_job ever made.
JobIds == 1..MaxJobs
Bogus == MaxJobs + 1

\* Python's None and an optional value.
None == << >>
Some(x) == << x >>

\* The url lists a client submits: n distinct urls, n >= 1.
UrlList(n) == [i \in 1..n |-> i]
UrlLists == {UrlList(n) : n \in 1..MaxUrls}

\* The urls of the JSON bodies sent to POST /enqueue of server.py.
Submissions == UrlLists \cup {<< >>}

\* Exception and error messages (str(e), the f-string of line 110).
Msg(kind, url) == [kind |-> kind, url |-> url]

\* --------------------------------------------------------------- server.py
VARIABLES
    jobs,      \* server.py:40  the in-memory dict job_id -> job dict
    disk,      \* JOBS_DIR: job_id -> content of <job_id>.json (a token sequence)
    up,        \* the server process is running
    req,       \* the /enqueue request being handled: None or Some(job_id)
    pc,        \* per job: the line its download_and_process thread is at
    loc,       \* per job: the thread's locals (idx, e, share)
    folder,    \* per job: PERSISTENT_DIR/<job_id> exists
    calls,     \* per job: the external calls its thread made, with their outcome
    saved,     \* per job: the last record _save_job wrote completely
    issued,    \* identifiers uuid4 has produced so far
    returned,  \* identifiers a 202 response has carried to a client
    unpolled,  \* identifiers returned by /enqueue and not polled since
    resp,      \* the /status response being delivered, NoResp when none is
    faults     \* injected faults so far: failed saves and process deaths

serverVars == << jobs, disk, up, req, pc, loc, folder, calls, saved, issued,
                 returned, unpolled, resp, faults >>

\* ------------------------------------- web/app.py and worker/server.py
\* (REDIS_URL unset: both processes use the files of QUEUE_DIR)
VARIABLES
    qdir,      \* QUEUE_DIR: job_id -> content of <job_id>.json
    wreq,      \* web enqueue_job between open and json.dump: None or Some(job)
    wpc,       \* the line the worker process is at
    wjob,      \* the worker's locals job_id and job: None or Some(job dict)
    wloc,      \* the worker's other locals
    wopen,     \* save_job has opened the job file and not yet written it
    wfolder,   \* per job: DATA_DIR/<job_id> exists
    wcalls,    \* the external calls of the process_job run under way
    wsaved,    \* per job: the last record a json.dump wrote completely
    token,     \* TOKEN_FILE exists
    wresp      \* the web /status response being delivered

workerVars == << qdir, wreq, wpc, wjob, wloc, wopen, wfolder, wcalls, wsaved,
                 token, wresp >>

vars == << serverVars, workerVars >>

\* json.dump(job, f): the text of the file as a sequence of tokens, the
\* opening brace, one token per key in insertion order, the closing brace.
Dump(job) ==
    << << "{", 0 >>,
       << "id", job.id >>,
       << "urls", job.urls >>,
       << "state", job.state >>,
       << "progress", job.progress >>,
       << "result", job.result >>,
       << "error", job.error >>,
       << "}", 0 >> >>

\* json.load(fh) raises on anything that is not a complete document: an
\* empty or truncated file has no closing brace.
Parseable(text) ==
    /\ Len(text) >= 2
    /\ text[1][1] = "{"
    /\ text[Len(text)][1] = "}"

Field(text, key) == text[CHOOSE i \in 1..Len(text) : text[i][1] = key][2]

\* json.load(fh) of a complete document: the dict of its keys.
Parse(text) ==
    [ id |-> Field(text, "id"),
      urls |-> Field(text, "urls"),
      state |-> Field(text, "state"),
      progress |-> Field(text, "progress"),
      result |-> Field(text, "result"),
      error |-> Field(text, "error") ]

\* A create_job whose record starts in state running: the first poll could
\* then not tell a job whose thread has not begun from one that has.
NewJob_running(jid, urls) ==
    [ id |-> jid,
      urls |-> urls,
      state |-> "running",
      progress |-> [current |-> 0, total |-> Len(urls), current_url |-> None],
      result |-> None,
      error |-> None ]

\* The job dict create_job builds (name and created_at play no role below).
NewJob(jid, urls) ==
    [ id |-> jid,
      urls |-> urls,
      state |-> "queued",
      progress |-> [current |-> 0, total |-> Len(urls), current_url |-> None],
      result |-> None,
      error |-> None ]

NoLocals == [idx |-> 0, e |-> None, share |-> None]

\* _save_job(job) running to completion: open(path, "w") and json.dump.
save_job_file(job) ==
    /\ disk' = [j \in DOMAIN disk \cup {job.id} |->
                  IF j = job.id THEN Dump(job) ELSE disk[j]]
    /\ saved' = [saved EXCEPT ![job.id] = Some(job)]

\* jobs_lock is held by the request thread that is inside create_job, between
\* line 72 and the end of line 73.  update_job and list_jobs take the same
\* lock, so they wait for it.
jobs_lock_held == req # None /\ req[1].at = "L73"

Put(f, k, v) == [x \in DOMAIN f \cup {k} |-> IF x = k THEN v ELSE f[x]]

\* What the Drive API hands back (opaque identifiers and links).
FolderId(j) == << "folder", j >>
FileId(j) == << "file", j >>
DriveFile(j, content) ==
    [ id |-> FileId(j),
      webViewLink |-> Some("view"),
      webContentLink |-> IF content THEN Some("content") ELSE None ]

\* No /status response is in flight.
NoResp == [id |-> Bogus, code |-> 0, body |-> None, first |-> FALSE]

Call(op, arg, out) == [op |-> op, arg |-> arg, out |-> out]

NoWorkerLocals == [i |-> 0, files |-> 0, e |-> None]
NoWebResp == [id |-> Bogus, code |-> 0, body |-> None, text |-> None]

\* The state after both programs start with empty job directories; tokens:
\* whether the Drive token file may be there.
InitWith(tokens) ==
    /\ token \in tokens
    /\ jobs = << >>
    /\ disk = << >>
    /\ up = TRUE
    /\ req = None
    /\ pc = [j \in JobIds |-> "none"]
    /\ loc = [j \in JobIds |-> NoLocals]
    /\ folder = [j \in JobIds |-> FALSE]
    /\ calls = [j \in JobIds |-> << >>]
    /\ saved = [j \in JobIds |-> None]
    /\ issued = {}
    /\ returned = {}
    /\ unpolled = {}
    /\ resp = NoResp
    /\ faults = 0
    /\ qdir = << >>
    /\ wreq = None
    /\ wpc = "L173"
    /\ wjob = None
    /\ wloc = NoWorkerLocals
    /\ wopen = FALSE
    /\ wfolder = [j \in JobIds |-> FALSE]
    /\ wcalls = << >>
    /\ wsaved = [j \in JobIds |-> None]
    /\ wresp = NoWebResp

Init == InitWith({TRUE})

\* ----------------------------------------------------- POST /enqueue

\* Lines 153-157: a request whose urls is missing or an empty list is
\* answered 400; nothing is created.
enqueue_reject(urls) ==
    /\ up
    /\ urls = << >>
    /\ UNCHANGED serverVars

\* Lines 153-158 with a non-empty list, then create_job up to line 72: the
\* dict is built and, under jobs_lock, put into jobs.
enqueue_create(urls) ==
    /\ up
    /\ req = None
    /\ urls # << >>
    /\ \E jid \in JobIds \ issued :
         /\ jid = Cardinality(issued) + 1
         /\ issued' = issued \cup {jid}
         /\ jobs' = Put(jobs, jid, NewJob(jid, urls))
         /\ req' = Some([jid |-> jid, at |-> "L73"])
    /\ UNCHANGED << disk, up, pc, loc, folder, calls, saved, returned, unpolled,
                    resp, faults >>

\* create_job line 73: _save_job(job), still under jobs_lock.
enqueue_save ==
    /\ up
    /\ req # None
    /\ req[1].at = "L73"
    /\ save_job_file(jobs[req[1].jid])
    /\ req' = Some([jid |-> req[1].jid, at |-> "L160"])
    /\ UNCHANGED << jobs, up, pc, loc, folder, calls, issued, returned, unpolled,
                    resp, faults >>

\* Lines 160-162: the daemon thread is started and the 202 response carries
\* the job id to the client.
enqueue_start ==
    /\ up
    /\ req # None
    /\ req[1].at = "L160"
    /\ pc' = [pc EXCEPT ![req[1].jid] = "L82"]
    /\ returned' = returned \cup {req[1].jid}
    /\ unpolled' = unpolled \cup {req[1].jid}
    /\ req' = None
    /\ UNCHANGED << jobs, disk, up, loc, folder, calls, saved, issued, resp,
                    faults >>

\* ------------------------------------------------ download_and_process

\* The thread's `job` is the very dict stored in jobs[job_id]: what the
\* thread assigns is visible to /status before update_job runs.
SetJob(j, job) == jobs' = [jobs EXCEPT ![j] = job]
Goto(j, line) == pc' = [pc EXCEPT ![j] = line]
Raise(j, kind, line) ==
    /\ loc' = [loc EXCEPT ![j].e = Some(Msg(kind, 0))]
    /\ Goto(j, line)

\* Lines 82-85.
dap_begin(j) ==
    /\ up
    /\ pc[j] = "L82"
    /\ IF j \in DOMAIN jobs
          THEN SetJob(j, [jobs[j] EXCEPT !.state = "running"]) /\ Goto(j, "L86")
          ELSE UNCHANGED jobs /\ Goto(j, "end")
    /\ UNCHANGED << disk, up, req, loc, folder, calls, saved, issued, returned,
                    unpolled, resp, faults >>

\* Where a thread goes on after an update_job call that returned.
AfterUpdate(line) ==
    CASE line = "L86" -> "L88"
      [] line = "L101" -> "L107"
      [] line = "L111" -> "L97"
      [] line = "L115" -> "L116"
      [] line = "L124" -> "L126"
      [] line = "L138" -> "L147"
      [] line = "L143" -> "L147"

UpdateLines == {"L86", "L101", "L111", "L115", "L124", "L138", "L143"}

\* update_job(job), lines 76-79, called at lines 86, 101, 111, 115, 124,
\* 138 and 143: under jobs_lock, jobs[id] = job and _save_job(job).
update_job(j) ==
    /\ up
    /\ pc[j] \in UpdateLines
    /\ ~jobs_lock_held
    /\ SetJob(j, jobs[j])
    /\ save_job_file(jobs[j])
    /\ Goto(j, AfterUpdate(pc[j]))
    /\ UNCHANGED << up, req, loc, folder, calls, issued, returned, unpolled, resp,
                    faults >>

\* Lines 88-91: the batch folder is (re)created.
dap_mkdir(j) ==
    /\ up
    /\ pc[j] = "L88"
    /\ folder' = [folder EXCEPT ![j] = TRUE]
    /\ Goto(j, "L97")
    /\ UNCHANGED << jobs, disk, up, req, loc, calls, saved, issued, returned,
                    unpolled, resp, faults >>

\* A loop that stops at the first url but one (for ... in urls[:-1]).
dap_for_short(j) ==
    /\ up
    /\ pc[j] = "L97"
    /\ IF loc[j].idx + 1 < Len(jobs[j].urls)
          THEN /\ loc' = [loc EXCEPT ![j].idx = @ + 1]
               /\ Goto(j, "L98")
          ELSE /\ UNCHANGED loc
               /\ Goto(j, "L114")
    /\ UNCHANGED << jobs, disk, up, req, folder, calls, saved, issued, returned,
                    unpolled, resp, faults >>

\* Line 97: for idx, url in enumerate(urls, start=1).
dap_for(j) ==
    /\ up
    /\ pc[j] = "L97"
    /\ IF loc[j].idx < Len(jobs[j].urls)
          THEN /\ loc' = [loc EXCEPT ![j].idx = @ + 1]
               /\ Goto(j, "L98")
          ELSE /\ UNCHANGED loc
               /\ Goto(j, "L114")
    /\ UNCHANGED << jobs, disk, up, req, folder, calls, saved, issued, returned,
                    unpolled, resp, faults >>

\* A loop that counts from 2 (enumerate(urls, start=2)): current passes
\* total at the last url.
dap_progress_from_2(j) ==
    /\ up
    /\ pc[j] = "L98"
    /\ SetJob(j, [jobs[j] EXCEPT !.progress =
                     [ current |-> loc[j].idx + 1,
                       total |-> Len(jobs[j].urls),
                       current_url |-> Some(jobs[j].urls[loc[j].idx]) ]])
    /\ Goto(j, "L101")
    /\ UNCHANGED << disk, up, req, loc, folder, calls, saved, issued, returned,
                    unpolled, resp, faults >>

\* Lines 98-100.
dap_progress(j) ==
    /\ up
    /\ pc[j] = "L98"
    /\ SetJob(j, [jobs[j] EXCEPT !.progress =
                     [ current |-> loc[j].idx,
                       total |-> Len(jobs[j].urls),
                       current_url |-> Some(jobs[j].urls[loc[j].idx]) ]])
    /\ Goto(j, "L101")
    /\ UNCHANGED << disk, up, req, loc, folder, calls, saved, issued, returned,
                    unpolled, resp, faults >>

\* A subprocess.run(cmd, check=True): a non-zero exit raises.
dap_download_check(j) ==
    /\ up
    /\ pc[j] = "L107"
    /\ \E out \in {"ok", "nonzero", "raise"} :
         /\ calls' = [calls EXCEPT ![j] =
                         Append(@, Call("yt-dlp", jobs[j].urls[loc[j].idx], out))]
         /\ IF out = "ok"
               THEN UNCHANGED loc /\ Goto(j, "L97")
               ELSE Raise(j, "yt-dlp", "L141")
    /\ UNCHANGED << jobs, disk, up, req, folder, saved, issued, returned,
                    unpolled, resp, faults >>

\* Lines 104-108: yt-dlp runs for the url; it exits with zero, exits with
\* another code, or subprocess.run itself raises (no such binary).
dap_download(j) ==
    /\ up
    /\ pc[j] = "L107"
    /\ \E out \in {"ok", "nonzero", "raise"} :
         /\ calls' = [calls EXCEPT ![j] =
                         Append(@, Call("yt-dlp", jobs[j].urls[loc[j].idx], out))]
         /\ CASE out = "ok" -> UNCHANGED loc /\ Goto(j, "L97")
              [] out = "nonzero" -> UNCHANGED loc /\ Goto(j, "L110")
              [] out = "raise" -> Raise(j, "yt-dlp", "L141")
    /\ UNCHANGED << jobs, disk, up, req, folder, saved, issued, returned,
                    unpolled, resp, faults >>

\* Line 110.
dap_record_error(j) ==
    /\ up
    /\ pc[j] = "L110"
    /\ SetJob(j, [jobs[j] EXCEPT !.error =
                     Some(Msg("yt-dlp failed", jobs[j].urls[loc[j].idx]))])
    /\ Goto(j, "L111")
    /\ UNCHANGED << disk, up, req, loc, folder, calls, saved, issued, returned,
                    unpolled, resp, faults >>

\* A stage entered without update_job: the state is assigned and the
\* stage's call comes next.
dap_set_state_unsaved(j) ==
    /\ up
    /\ pc[j] \in {"L114", "L123"}
    /\ SetJob(j, [jobs[j] EXCEPT !.state =
                     IF pc[j] = "L114" THEN "zipping" ELSE "uploading"])
    /\ Goto(j, IF pc[j] = "L114" THEN "L116" ELSE "L126")
    /\ UNCHANGED << disk, up, req, loc, folder, calls, saved, issued, returned,
                    unpolled, resp, faults >>

\* Lines 114, 123: job["state"] = ...
dap_set_state(j) ==
    /\ up
    /\ pc[j] \in {"L114", "L123"}
    /\ SetJob(j, [jobs[j] EXCEPT !.state =
                     IF pc[j] = "L114" THEN "zipping" ELSE "uploading"])
    /\ Goto(j, IF pc[j] = "L114" THEN "L115" ELSE "L124")
    /\ UNCHANGED << disk, up, req, loc, folder, calls, saved, issued, returned,
                    unpolled, resp, faults >>

\* A make_archive whose exception is swallowed: the upload goes on.
dap_make_archive_swallowed(j) ==
    /\ up
    /\ pc[j] = "L116"
    /\ \E out \in {"ok", "raise"} :
         /\ calls' = [calls EXCEPT ![j] = Append(@, Call("make_archive", 0, out))]
         /\ UNCHANGED loc
         /\ Goto(j, "L123")
    /\ UNCHANGED << jobs, disk, up, req, folder, saved, issued, returned,
                    unpolled, resp, faults >>

\* Lines 116-120: the old zip is removed and shutil.make_archive runs.
dap_make_archive(j) ==
    /\ up
    /\ pc[j] = "L116"
    /\ \E out \in {"ok", "raise"} :
         /\ calls' = [calls EXCEPT ![j] = Append(@, Call("make_archive", 0, out))]
         /\ IF out = "ok"
               THEN UNCHANGED loc /\ Goto(j, "L123")
               ELSE Raise(j, "make_archive", "L141")
    /\ UNCHANGED << jobs, disk, up, req, folder, saved, issued, returned,
                    unpolled, resp, faults >>

\* drive_api._get_creds, lines 13-18, the first thing every call of
\* drive_api does: without the token file the call raises FileNotFoundError.
DriveOutcomes == IF token THEN {"ok", "raise"} ELSE {"raise"}
DriveError(op) == IF token THEN op ELSE "Drive token file not found"

\* Line 126: drive_api.create_folder.
dap_create_folder(j) ==
    /\ up
    /\ pc[j] = "L126"
    /\ \E out \in DriveOutcomes :
         /\ calls' = [calls EXCEPT ![j] = Append(@, Call("create_folder", 0, out))]
         /\ IF out = "ok"
               THEN UNCHANGED loc /\ Goto(j, "L127")
               ELSE Raise(j, DriveError("create_folder"), "L141")
    /\ UNCHANGED << jobs, disk, up, req, folder, saved, issued, returned,
                    unpolled, resp, faults >>

\* Line 127: drive_api.upload_file.
dap_upload_file(j) ==
    /\ up
    /\ pc[j] = "L127"
    /\ \E out \in DriveOutcomes :
         /\ calls' = [calls EXCEPT ![j] = Append(@, Call("upload_file", 0, out))]
         /\ IF out = "ok"
               THEN UNCHANGED loc /\ Goto(j, "L129")
               ELSE Raise(j, DriveError("upload_file"), "L141")
    /\ UNCHANGED << jobs, disk, up, req, folder, saved, issued, returned,
                    unpolled, resp, faults >>

\* drive_api.make_shareable, lines 46-64: a failing permissions().create is
\* swallowed (it changes nothing here); get_service or files().get may raise;
\* otherwise the file's id and links come back.
make_shareable(j, out, content) ==
    IF out = "ok" THEN Some(DriveFile(j, content)) ELSE None

\* Line 129.
dap_make_shareable(j) ==
    /\ up
    /\ pc[j] = "L129"
    /\ \E out \in DriveOutcomes, content \in BOOLEAN :
         /\ out = "raise" => content
         /\ calls' = [calls EXCEPT ![j] = Append(@, Call("make_shareable", 0, out))]
         /\ IF out = "ok"
               THEN /\ loc' = [loc EXCEPT ![j].share = make_shareable(j, out, content)]
                    /\ Goto(j, "L131")
               ELSE Raise(j, DriveError("make_shareable"), "L141")
    /\ UNCHANGED << jobs, disk, up, req, folder, saved, issued, returned,
                    unpolled, resp, faults >>

\* Line 131.
dap_done(j) ==
    /\ up
    /\ pc[j] = "L131"
    /\ SetJob(j, [jobs[j] EXCEPT !.state = "done"])
    /\ Goto(j, "L132")
    /\ UNCHANGED << disk, up, req, loc, folder, calls, saved, issued, returned,
                    unpolled, resp, faults >>

\* A result that keeps the two ids and drops the links.
Result_without_links(j, share) ==
    [ drive_folder_id |-> FolderId(j),
      zip_file_id |-> share.id,
      webViewLink |-> None,
      webContentLink |-> None ]

\* The dict of lines 132-137.
Result(j, share) ==
    [ drive_folder_id |-> FolderId(j),
      zip_file_id |-> share.id,
      webViewLink |-> share.webViewLink,
      webContentLink |-> share.webContentLink ]

\* Lines 132-137.
dap_result(j) ==
    /\ up
    /\ pc[j] = "L132"
    /\ SetJob(j, [jobs[j] EXCEPT !.result = Some(Result(j, loc[j].share[1]))])
    /\ Goto(j, "L138")
    /\ UNCHANGED << disk, up, req, loc, folder, calls, saved, issued, returned,
                    unpolled, resp, faults >>

\* Line 141.
dap_except_state(j) ==
    /\ up
    /\ pc[j] = "L141"
    /\ SetJob(j, [jobs[j] EXCEPT !.state = "error"])
    /\ Goto(j, "L142")
    /\ UNCHANGED << disk, up, req, loc, folder, calls, saved, issued, returned,
                    unpolled, resp, faults >>

\* An except clause that keeps an error already recorded
\* (job["error"] = job["error"] or str(e)).
dap_except_error_kept(j) ==
    /\ up
    /\ pc[j] = "L142"
    /\ SetJob(j, [jobs[j] EXCEPT !.error =
                     IF jobs[j].error # None THEN jobs[j].error ELSE loc[j].e])
    /\ Goto(j, "L143")
    /\ UNCHANGED << disk, up, req, loc, folder, calls, saved, issued, returned,
                    unpolled, resp, faults >>

\* Line 142.
dap_except_error(j) ==
    /\ up
    /\ pc[j] = "L142"
    /\ SetJob(j, [jobs[j] EXCEPT !.error = loc[j].e])
    /\ Goto(j, "L143")
    /\ UNCHANGED << disk, up, req, loc, folder, calls, saved, issued, returned,
                    unpolled, resp, faults >>

\* Lines 144-149: the finally block removes the batch folder; the thread ends.
dap_finally(j) ==
    /\ up
    /\ pc[j] = "L147"
    /\ folder' = [folder EXCEPT ![j] = FALSE]
    /\ Goto(j, "end")
    /\ UNCHANGED << jobs, disk, up, req, loc, calls, saved, issued, returned,
                    unpolled, resp, faults >>

download_and_process(j) ==
    \/ dap_begin(j)
    \/ update_job(j)
    \/ dap_mkdir(j)
    \/ dap_for(j)
    \/ dap_progress(j)
    \/ dap_download(j)
    \/ dap_record_error(j)
    \/ dap_set_state(j)
    \/ dap_make_archive(j)
    \/ dap_create_folder(j)
    \/ dap_upload_file(j)
    \/ dap_make_shareable(j)
    \/ dap_done(j)
    \/ dap_result(j)
    \/ dap_except_state(j)
    \/ dap_except_error(j)
    \/ dap_finally(j)

\* --------------------------------------------------- GET /status, /jobs

\* Lines 178-181: the values of jobs, read under jobs_lock.
list_jobs == {jobs[j] : j \in DOMAIN jobs}

\* The identifiers a client can poll: those a 202 response gave it, those
\* GET /jobs shows it right now, and one that no create_job ever produced.
Pollable ==
    returned \cup (IF jobs_lock_held THEN {} ELSE {job.id : job \in list_jobs})
             \cup {Bogus}

\* Lines 164-176.
status(job_id) ==
    /\ up
    /\ job_id \in Pollable
    /\ unpolled' = unpolled \ {job_id}
    /\ CASE job_id \in DOMAIN jobs ->
              /\ resp' = [id |-> job_id, code |-> 200, body |-> Some(jobs[job_id]),
                          first |-> job_id \in unpolled]
              /\ UNCHANGED jobs
         [] job_id \notin DOMAIN jobs /\ job_id \in DOMAIN disk /\ Parseable(disk[job_id]) ->
              /\ resp' = [id |-> job_id, code |-> 200,
                          body |-> Some(Parse(disk[job_id])),
                          first |-> job_id \in unpolled]
              /\ jobs' = Put(jobs, job_id, Parse(disk[job_id]))
         [] job_id \notin DOMAIN jobs /\ job_id \in DOMAIN disk /\ ~Parseable(disk[job_id]) ->
              /\ resp' = [id |-> job_id, code |-> 500, body |-> None,
                          first |-> job_id \in unpolled]
              /\ UNCHANGED jobs
         [] job_id \notin DOMAIN jobs /\ job_id \notin DOMAIN disk ->
              /\ resp' = [id |-> job_id, code |-> 404, body |-> None,
                          first |-> job_id \in unpolled]
              /\ UNCHANGED jobs
    /\ UNCHANGED << disk, up, req, pc, loc, folder, calls, saved, issued, returned,
                    faults >>

\* The client reads the response.  A response is read in the state it was
\* computed from: nothing else happens while one is in flight, so resp always
\* describes the store as it was when status answered.
client_reads ==
    /\ resp # NoResp
    /\ resp' = NoResp
    /\ UNCHANGED << jobs, disk, up, req, pc, loc, folder, calls, saved, issued,
                    returned, unpolled, faults >>

ServerStep ==
    \/ \E urls \in Submissions : enqueue_reject(urls)
    \/ \E urls \in Submissions : enqueue_create(urls)
    \/ enqueue_save
    \/ enqueue_start
    \/ \E j \in JobIds : download_and_process(j)
    \/ \E j \in JobIds \cup {Bogus} : status(j)

Submitted(n) == Cardinality(issued') <= n

Next ==
    \/ resp = NoResp /\ ServerStep /\ Submitted(MaxPolledJobs)
                     /\ UNCHANGED workerVars
    \/ client_reads /\ UNCHANGED workerVars

Spec == Init /\ [][Next]_vars

\* server.py started without the Drive token file.
InitNoToken == InitWith({FALSE})

SpecNoToken == InitNoToken /\ [][Next]_vars

\* ------------------------------------------------------------- faults
\* The same server with an unreliable disk and a process that can die.

\* _save_job(job) raising: open(path, "w") fails and the file is untouched
\* (torn = -1), or the file is truncated by open and json.dump or the flush
\* fails after the first `torn` tokens.
Torn == -1..MaxTorn

save_job_file_fails(job, torn) ==
    /\ disk' = IF torn < 0 THEN disk
                ELSE Put(disk, job.id, SubSeq(Dump(job), 1, torn))
    /\ UNCHANGED saved

\* Where a thread goes when update_job raises: line 86 is outside the try
\* (the thread dies), line 143 is inside the except clause (the finally
\* block runs, then the thread dies), the others are caught at line 140.
AfterFailedUpdate(line) ==
    CASE line = "L86" -> "end"
      [] line = "L143" -> "L147"
      [] OTHER -> "L141"

update_job_fails(j) ==
    /\ up
    /\ faults < MaxFaults
    /\ pc[j] \in UpdateLines
    /\ ~jobs_lock_held
    /\ SetJob(j, jobs[j])
    /\ \E torn \in Torn : save_job_file_fails(jobs[j], torn)
    /\ Goto(j, AfterFailedUpdate(pc[j]))
    /\ loc' = [loc EXCEPT ![j].e =
                 IF AfterFailedUpdate(pc[j]) = "L141" THEN Some(Msg("save", 0)) ELSE @]
    /\ faults' = faults + 1
    /\ UNCHANGED << up, req, folder, calls, issued, returned, unpolled, resp >>

\* create_job line 73 raising: the exception leaves create_job and enqueue
\* (a 500 response without a job id); jobs keeps the dict line 72 stored.
enqueue_save_fails ==
    /\ up
    /\ faults < MaxFaults
    /\ req # None
    /\ req[1].at = "L73"
    /\ \E torn \in Torn : save_job_file_fails(jobs[req[1].jid], torn)
    /\ req' = None
    /\ faults' = faults + 1
    /\ UNCHANGED << jobs, up, pc, loc, folder, calls, issued, returned, unpolled,
                    resp >>

\* The process dies: the dict, the request and the daemon threads are gone,
\* the files stay.  A _save_job that was between open and the end of
\* json.dump leaves its file truncated (the jobs in `writing`).  The call
\* log belongs to the threads and a poll after a restart is no longer the
\* poll that follows a submission, so both are reset.
Writing ==
    {j \in JobIds : pc[j] \in UpdateLines /\ ~jobs_lock_held}
      \cup (IF jobs_lock_held THEN {req[1].jid} ELSE {})

crash ==
    /\ up
    /\ faults < MaxFaults
    /\ \E writing \in SUBSET Writing, torn \in 0..MaxTorn :
         /\ Cardinality(writing) <= 1
         /\ disk' = [j \in DOMAIN disk \cup writing |->
                       IF j \in writing THEN SubSeq(Dump(jobs[j]), 1, torn)
                       ELSE disk[j]]
    /\ up' = FALSE
    /\ jobs' = << >>
    /\ req' = None
    /\ pc' = [j \in JobIds |-> "none"]
    /\ loc' = [j \in JobIds |-> NoLocals]
    /\ calls' = [j \in JobIds |-> << >>]
    /\ unpolled' = {}
    /\ faults' = faults + 1
    /\ UNCHANGED << folder, saved, issued, returned, resp >>

\* Lines 48-57, run at import: every file json.load accepts is put into jobs
\* under the id it holds; a file that does not parse is skipped.
load_existing_jobs ==
    LET ok == {j \in DOMAIN disk : Parseable(disk[j])}
        ids == {Parse(disk[j]).id : j \in ok}
    IN  [i \in ids |-> Parse(disk[CHOOSE j \in ok : Parse(disk[j]).id = i])]

restart ==
    /\ ~up
    /\ up' = TRUE
    /\ jobs' = load_existing_jobs
    /\ UNCHANGED << disk, req, pc, loc, folder, calls, saved, issued, returned,
                    unpolled, resp, faults >>

FaultStep ==
    \/ \E j \in JobIds : update_job_fails(j)
    \/ enqueue_save_fails
    \/ crash
    \/ restart

NextFault ==
    \/ resp = NoResp /\ ServerStep /\ Submitted(MaxPolledJobs)
                     /\ UNCHANGED workerVars
    \/ client_reads /\ UNCHANGED workerVars
    \/ resp = NoResp /\ FaultStep /\ UNCHANGED workerVars

SpecFault == Init /\ [][NextFault]_vars

\* Concurrent submissions, nobody polling: the threads of MaxJobs jobs.
ThreadStep ==
    \/ \E urls \in Submissions : enqueue_reject(urls)
    \/ \E urls \in Submissions : enqueue_create(urls)
    \/ enqueue_save
    \/ enqueue_start
    \/ \E j \in JobIds : download_and_process(j)

NextThreads == ThreadStep /\ UNCHANGED workerVars

SpecThreads == Init /\ [][NextThreads]_vars

\* The threads of MaxPolledJobs submissions, nobody polling: /status changes
\* nothing but its own response while the server stays up.
NextJob == ThreadStep /\ Submitted(MaxPolledJobs) /\ UNCHANGED workerVars

SpecJob == Init /\ [][NextJob]_vars

\* ------------------------------------------------------- web/app.py

\* The dict enqueue_job builds, lines 25-30 (meta is always {}).  The keys
\* process_job adds later are None while absent.
WebJob(jid, urls) ==
    [ id |-> jid,
      urls |-> urls,
      status |-> "queued",
      error |-> None,
      drive_folder_id |-> None,
      zip_id |-> None ]

\* json.dump(job, f) and json.load(fh) for these dicts.
DumpW(job) ==
    << << "{", 0 >>,
       << "id", job.id >>,
       << "urls", job.urls >>,
       << "status", job.status >>,
       << "error", job.error >>,
       << "drive_folder_id", job.drive_folder_id >>,
       << "zip_id", job.zip_id >>,
       << "}", 0 >> >>

ParseW(text) ==
    [ id |-> Field(text, "id"),
      urls |-> Field(text, "urls"),
      status |-> Field(text, "status"),
      error |-> Field(text, "error"),
      drive_folder_id |-> Field(text, "drive_folder_id"),
      zip_id |-> Field(text, "zip_id") ]

\* The text of the form field: pieces separated by commas and newlines, a
\* piece being a url or blank (0).  Line 50 keeps the pieces that are not
\* blank.
FormData == {<< >>, << 0 >>} \cup UrlLists
SplitUrls(data) == SelectSeq(data, LAMBDA piece : piece # 0)

\* Lines 46-48: no data, 400.
web_enqueue_reject(data) ==
    /\ data = << >>
    /\ UNCHANGED << qdir, wreq, wsaved >>

\* Lines 46-51 and enqueue_job up to line 36: the job dict is built and its
\* file opened for writing.  The file name is a fresh uuid4: it sorts
\* anywhere among the names already there.
web_enqueue_open(data) ==
    /\ data # << >>
    /\ wreq = None
    /\ \E jid \in JobIds \ DOMAIN qdir :
         /\ wreq' = Some(WebJob(jid, SplitUrls(data)))
         /\ qdir' = Put(qdir, jid, << >>)
    /\ UNCHANGED wsaved

\* enqueue_job line 37 and the redirect of line 52.
web_enqueue_dump ==
    /\ wreq # None
    /\ qdir' = Put(qdir, wreq[1].id, DumpW(wreq[1]))
    /\ wsaved' = [wsaved EXCEPT ![wreq[1].id] = wreq]
    /\ wreq' = None

\* The identifiers a client of the dashboard can poll: the jobs whose file
\* was written (the redirect of /enqueue or GET /jobs showed them), and one
\* that no enqueue_job ever produced.
WebPollable == {j \in JobIds : wsaved[j] # None} \cup {Bogus}

\* Lines 54-66 without REDIS_URL: 404 when the file is missing, else
\* json.load of what the file holds at this moment.
web_status(job_id) ==
    /\ job_id \in WebPollable
    /\ wresp' =
         IF job_id \notin DOMAIN qdir
           THEN [id |-> job_id, code |-> 404, body |-> None, text |-> None]
         ELSE IF Parseable(qdir[job_id])
           THEN [id |-> job_id, code |-> 200, body |-> Some(ParseW(qdir[job_id])),
                 text |-> Some(qdir[job_id])]
         ELSE [id |-> job_id, code |-> 500, body |-> None,
               text |-> Some(qdir[job_id])]

web_client_reads ==
    /\ wresp # NoWebResp
    /\ wresp' = NoWebResp
    /\ UNCHANGED << qdir, wreq, wpc, wjob, wloc, wopen, wfolder, wcalls, wsaved,
                    token >>

WebStep ==
    /\ \/ (\E data \in FormData : web_enqueue_reject(data)) /\ UNCHANGED wresp
       \/ (\E data \in FormData : web_enqueue_open(data)) /\ UNCHANGED wresp
       \/ web_enqueue_dump /\ UNCHANGED wresp
       \/ \E j \in JobIds \cup {Bogus} :
             web_status(j) /\ UNCHANGED << qdir, wreq, wsaved >>
    /\ UNCHANGED << wpc, wjob, wloc, wopen, wfolder, wcalls, token >>

\* ---------------------------------------------------- worker/server.py

WGoto(line) == wpc' = line

\* blpop_job, lines 64-73: the first file name in sorted order, never
\* removed from the directory; json.load of a file enqueue_job has opened
\* and not yet written raises, outside the try of worker_loop.
blpop_job ==
    IF DOMAIN qdir = {} THEN None
    ELSE LET fn == CHOOSE j \in DOMAIN qdir : \A k \in DOMAIN qdir : j <= k
         IN  IF Parseable(qdir[fn]) THEN Some(ParseW(qdir[fn]).id)
             ELSE Some(Bogus)

\* worker_loop lines 173-176.
worker_pop ==
    /\ wpc = "L173"
    /\ blpop_job # None
    /\ IF blpop_job = Some(Bogus)
          THEN WGoto("crashed") /\ UNCHANGED << wloc, wcalls, wjob >>
          ELSE /\ WGoto("L114")
               /\ wjob' = Some([id |-> blpop_job[1]])
               /\ wloc' = NoWorkerLocals
               /\ wcalls' = << >>
    /\ UNCHANGED << qdir, wreq, wopen, wfolder, wsaved, token, wresp >>

\* load_job, lines 79-83.
load_job(job_id) ==
    IF job_id \notin DOMAIN qdir THEN None ELSE Some(ParseW(qdir[job_id]))

\* An exception leaving process_job: worker_loop line 179.
WRaise(kind) ==
    /\ wloc' = [wloc EXCEPT !.e = Some(Msg(kind, 0))]
    /\ WGoto("L181")

\* process_job lines 114-118.
worker_load ==
    /\ wpc = "L114"
    /\ IF wjob[1].id \in DOMAIN qdir /\ ~Parseable(qdir[wjob[1].id])
          THEN WRaise("json") /\ UNCHANGED wjob
          ELSE /\ UNCHANGED wloc
               /\ IF load_job(wjob[1].id) = None
                     THEN WGoto("L173") /\ UNCHANGED wjob
                     ELSE /\ wjob' = Some([load_job(wjob[1].id)[1]
                                             EXCEPT !.status = "running"])
                          /\ WGoto("L119")
    /\ UNCHANGED << qdir, wreq, wopen, wfolder, wcalls, wsaved, token, wresp >>

SaveLines == {"L119", "L130", "L143", "L155", "L161", "L184"}

AfterSave(line) ==
    CASE line = "L119" -> "L97"
      [] line = "L161" -> "L164"
      [] OTHER -> "L173"

\* save_job, lines 90-91: open(path, 'w') truncates the job file.
worker_save_open ==
    /\ wpc \in SaveLines
    /\ ~wopen
    /\ qdir' = Put(qdir, wjob[1].id, << >>)
    /\ wopen' = TRUE
    /\ UNCHANGED << wreq, wpc, wjob, wloc, wfolder, wcalls, wsaved, token, wresp >>

\* save_job, line 92: json.dump and the close.
worker_save_dump ==
    /\ wpc \in SaveLines
    /\ wopen
    /\ qdir' = Put(qdir, wjob[1].id, DumpW(wjob[1]))
    /\ wsaved' = [wsaved EXCEPT ![wjob[1].id] = wjob]
    /\ wopen' = FALSE
    /\ WGoto(AfterSave(wpc))
    /\ UNCHANGED << wreq, wjob, wloc, wfolder, wcalls, token, wresp >>

\* download_urls lines 96-97 (and line 121).
worker_mkdir ==
    /\ wpc = "L97"
    /\ wfolder' = [wfolder EXCEPT ![wjob[1].id] = TRUE]
    /\ WGoto("L98")
    /\ UNCHANGED << qdir, wreq, wjob, wloc, wopen, wcalls, wsaved, token, wresp >>

\* download_urls lines 98-111: yt-dlp for the next url; its exit code is
\* only printed.  A run that exits with zero leaves a file in the folder.
worker_download ==
    /\ wpc = "L98"
    /\ IF wloc.i < Len(wjob[1].urls)
          THEN \E out \in {"ok", "nonzero", "raise"} :
                 /\ wcalls' = Append(wcalls,
                                     Call("yt-dlp", wjob[1].urls[wloc.i + 1], out))
                 /\ IF out = "raise"
                       THEN WRaise("yt-dlp")
                       ELSE /\ wloc' = [wloc EXCEPT
                                          !.i = @ + 1,
                                          !.files = IF out = "ok" THEN @ + 1 ELSE @]
                            /\ UNCHANGED wpc
          ELSE /\ WGoto("L126")
               /\ wloc' = [wloc EXCEPT !.i = 0]
               /\ UNCHANGED wcalls
    /\ UNCHANGED << qdir, wreq, wjob, wopen, wfolder, wsaved, token, wresp >>

\* A failure process_job handles itself: lines 128-129, 141-142, 153-154.
WFail(kind, line) ==
    /\ wjob' = Some([wjob[1] EXCEPT !.status = "error",
                                      !.error = Some(Msg(kind, 0))])
    /\ WGoto(line)

\* Lines 125-131: create_drive_folder.  get_drive_service raises SystemExit
\* when TOKEN_FILE is missing, which no except clause of the worker catches:
\* the process exits.
worker_create_folder ==
    /\ wpc = "L126"
    /\ IF ~token
          THEN WGoto("exit") /\ UNCHANGED << wjob, wcalls >>
          ELSE \E out \in {"ok", "raise"} :
                 /\ wcalls' = Append(wcalls, Call("create_folder", 0, out))
                 /\ IF out = "ok"
                       THEN WGoto("L135") /\ UNCHANGED wjob
                       ELSE WFail("Drive folder create failed", "L130")
    /\ UNCHANGED << qdir, wreq, wloc, wopen, wfolder, wsaved, token, wresp >>

\* Lines 134-144: every file of the folder is uploaded.
worker_upload_files ==
    /\ wpc = "L135"
    /\ IF wloc.i < wloc.files
          THEN \E out \in {"ok", "raise"} :
                 /\ wcalls' = Append(wcalls, Call("upload_file", wloc.i + 1, out))
                 /\ IF out = "ok"
                       THEN /\ wloc' = [wloc EXCEPT !.i = @ + 1]
                            /\ UNCHANGED << wpc, wjob >>
                       ELSE WFail("Upload failed", "L143") /\ UNCHANGED wloc
          ELSE WGoto("L149") /\ UNCHANGED << wloc, wjob, wcalls >>
    /\ UNCHANGED << qdir, wreq, wopen, wfolder, wsaved, token, wresp >>

\* Lines 147-149: zip_folder, outside any try of process_job.
worker_zip ==
    /\ wpc = "L149"
    /\ \E out \in {"ok", "raise"} :
         /\ wcalls' = Append(wcalls, Call("make_archive", 0, out))
         /\ IF out = "ok"
               THEN WGoto("L151") /\ UNCHANGED wloc
               ELSE WRaise("make_archive")
    /\ UNCHANGED << qdir, wreq, wjob, wopen, wfolder, wsaved, token, wresp >>

\* Lines 150-156: the zip is uploaded.
worker_upload_zip ==
    /\ wpc = "L151"
    /\ \E out \in {"ok", "raise"} :
         /\ wcalls' = Append(wcalls, Call("upload_zip", 0, out))
         /\ IF out = "ok"
               THEN WGoto("L158") /\ UNCHANGED wjob
               ELSE WFail("Zip upload failed", "L155")
    /\ UNCHANGED << qdir, wreq, wloc, wopen, wfolder, wsaved, token, wresp >>

\* Lines 158-160.
worker_done ==
    /\ wpc = "L158"
    /\ wjob' = Some([wjob[1] EXCEPT !.status = "done",
                                      !.drive_folder_id = Some(FolderId(wjob[1].id)),
                                      !.zip_id = Some(FileId(wjob[1].id))])
    /\ WGoto("L161")
    /\ UNCHANGED << qdir, wreq, wloc, wopen, wfolder, wcalls, wsaved, token, wresp >>

\* Lines 163-168: only the path through line 161 removes the folder.
worker_cleanup ==
    /\ wpc = "L164"
    /\ wfolder' = [wfolder EXCEPT ![wjob[1].id] = FALSE]
    /\ WGoto("L173")
    /\ UNCHANGED << qdir, wreq, wjob, wloc, wopen, wcalls, wsaved, token, wresp >>

\* worker_loop lines 179-183: the job is read again from its file.
worker_except ==
    /\ wpc = "L181"
    /\ IF wjob[1].id \in DOMAIN qdir /\ ~Parseable(qdir[wjob[1].id])
          THEN WGoto("crashed") /\ UNCHANGED wjob
          ELSE /\ wjob' = Some([(IF load_job(wjob[1].id) = None
                                    THEN WebJob(wjob[1].id, << >>)
                                    ELSE load_job(wjob[1].id)[1])
                                  EXCEPT !.status = "error", !.error = wloc.e])
               /\ WGoto("L184")
    /\ UNCHANGED << qdir, wreq, wloc, wopen, wfolder, wcalls, wsaved, token, wresp >>

process_job ==
    \/ worker_load
    \/ worker_save_open
    \/ worker_save_dump
    \/ worker_mkdir
    \/ worker_download
    \/ worker_create_folder
    \/ worker_upload_files
    \/ worker_zip
    \/ worker_upload_zip
    \/ worker_done
    \/ worker_cleanup

worker_loop ==
    \/ worker_pop
    \/ process_job
    \/ worker_except

NextWorker ==
    \/ wresp = NoWebResp /\ WebStep /\ UNCHANGED serverVars
    \/ wresp = NoWebResp /\ worker_loop /\ UNCHANGED serverVars
    \/ web_client_reads /\ UNCHANGED serverVars

InitWorker == InitWith(BOOLEAN)

SpecWorker == InitWorker /\ [][NextWorker]_vars

\* ----------------------------------------------- worker process death

\* The worker process dies at any point (kill, power loss).  A file that
\* save_job has opened and not yet written stays empty; the download folder
\* stays; the locals are gone.
worker_crash ==
    /\ wpc \notin {"exit", "crashed"}
    /\ faults < MaxFaults
    /\ faults' = faults + 1
    /\ WGoto("crashed")
    /\ wopen' = FALSE
    /\ wjob' = None
    /\ wloc' = NoWorkerLocals
    /\ UNCHANGED << qdir, wreq, wfolder, wcalls, wsaved, token, wresp >>
    /\ UNCHANGED << jobs, disk, up, req, pc, loc, folder, calls, saved, issued,
                    returned, unpolled, resp >>

\* The worker is started again: worker_loop begins at line 173.
worker_restart ==
    /\ wpc \in {"exit", "crashed"}
    /\ WGoto("L173")
    /\ wopen' = FALSE
    /\ wjob' = None
    /\ wloc' = NoWorkerLocals
    /\ UNCHANGED << qdir, wreq, wfolder, wcalls, wsaved, token, wresp >>
    /\ UNCHANGED serverVars

\* The dashboard's enqueue alone (no poller).
WebEnqueueStep ==
    /\ \/ \E data \in FormData : web_enqueue_reject(data)
       \/ \E data \in FormData : web_enqueue_open(data)
       \/ web_enqueue_dump
    /\ UNCHANGED << wpc, wjob, wloc, wopen, wfolder, wcalls, token, wresp >>

NextWorkerFault ==
    \/ WebEnqueueStep /\ UNCHANGED serverVars
    \/ worker_loop /\ UNCHANGED serverVars
    \/ worker_crash
    \/ worker_restart

SpecWorkerFault == InitWorker /\ [][NextWorkerFault]_vars

\* ------------------------------------------------- worker, fair runs

\* The dashboard's enqueue and the worker, the token file in place.  The
\* worker process is scheduled whenever it can run (its loop sleeps at most
\* 2 s), and a request that has opened its file goes on to write it.
WorkerLoopStep == worker_loop /\ UNCHANGED serverVars
WebDumpStep ==
    /\ web_enqueue_dump
    /\ UNCHANGED << wpc, wjob, wloc, wopen, wfolder, wcalls, token, wresp >>
    /\ UNCHANGED serverVars

NextQueue ==
    \/ WebEnqueueStep /\ UNCHANGED serverVars
    \/ WorkerLoopStep

SpecWorkerLive ==
    /\ Init
    /\ [][NextQueue]_vars
    /\ WF_vars(WorkerLoopStep)
    /\ WF_vars(WebDumpStep)

\* ------------------------------------------------------------ properties

Ended(j) == pc[j] = "end"
CallsOf(j, ops) == SelectSeq(calls[j], LAMBDA c : c.op \in ops)
Outcomes(j, ops) == {CallsOf(j, ops)[i].out : i \in 1..Len(CallsOf(j, ops))}
DriveOps == {"create_folder", "upload_file", "make_shareable"}
AllOps == DriveOps \cup {"yt-dlp", "make_archive"}
NonzeroExits(j) ==
    Cardinality({i \in 1..Len(calls[j]) : calls[j][i].out = "nonzero"})
Populated(result) ==
    /\ result # None
    /\ result[1].drive_folder_id # None
    /\ result[1].zip_file_id # None
    /\ (result[1].webViewLink # None \/ result[1].webContentLink # None)

\* The transitions of the lifecycle.
Forward ==
    { << "queued", "running" >>, << "running", "zipping" >>,
      << "zipping", "uploading" >>, << "uploading", "done" >>,
      << "running", "error" >>, << "zipping", "error" >>,
      << "uploading", "error" >> }

\* C1 (as stated): the first poll of a job id after its 202 response returns
\* a record in state queued, whatever the job's thread has done meanwhile.
C1_ImmediatePollQueued ==
    resp.first => (resp.code = 200 /\ resp.body[1].state = "queued")

\* C1 (amended): the first poll after the 202 response returns the job's own
\* record; its state is queued exactly as long as the job's thread has not
\* run line 85, and otherwise a later state of the lifecycle.
C1_ImmediatePollFollowsThread ==
    resp.first =>
        /\ resp.code = 200
        /\ resp.body[1].id = resp.id
        /\ resp.body[1].state = "queued" <=> pc[resp.id] = "L82"
        /\ resp.body[1].state \in
              {"queued", "running", "zipping", "uploading", "done", "error"}

C1_Witness ==
    resp.first /\ resp.code = 200 /\ resp.body[1].state = "uploading"

\* C2: in memory and in every persisted record 0 <= current <= total, and
\* from one persisted record of a job to the next current never decreases.
C2_ProgressMonotone ==
    /\ [](\A j \in DOMAIN jobs :
            /\ 0 <= jobs[j].progress.current
            /\ jobs[j].progress.current <= jobs[j].progress.total)
    /\ [](\A j \in JobIds : saved[j] # None =>
            /\ 0 <= saved[j][1].progress.current
            /\ saved[j][1].progress.current <= saved[j][1].progress.total)
    /\ [][\A j \in JobIds : (saved[j] # None /\ saved'[j] # None) =>
            saved'[j][1].progress.current >= saved[j][1].progress.current]_vars

C2_Witness ==
    \E j \in JobIds :
        /\ saved[j] # None
        /\ saved[j][1].progress.current = 2
        /\ saved[j][1].progress.total = 2
        /\ saved[j][1].state = "done"

\* C3: when the thread has ended and every yt-dlp run exited with zero and
\* make_archive and the three Drive calls returned, the job is done and its
\* result holds the folder id, the file id and a link.
C3_AllSucceedDone ==
    \A j \in JobIds :
        (Ended(j) /\ Outcomes(j, AllOps) = {"ok"}) =>
            /\ jobs[j].state = "done"
            /\ Populated(jobs[j].result)
            /\ jobs[j].result[1].drive_folder_id = FolderId(j)
            /\ jobs[j].result[1].zip_file_id = FileId(j)

C3_Witness ==
    \E j \in JobIds :
        /\ Ended(j)
        /\ Outcomes(j, AllOps) = {"ok"}
        /\ Len(jobs[j].urls) = 2
        /\ jobs[j].result # None

\* C4: when the thread has ended, exactly one yt-dlp run exited non-zero and
\* every other call returned, the job is done, error is set and result is
\* populated.
C4_OneFailureStillDone ==
    \A j \in JobIds :
        (/\ Ended(j)
         /\ NonzeroExits(j) = 1
         /\ Outcomes(j, AllOps) \subseteq {"ok", "nonzero"}) =>
            /\ jobs[j].state = "done"
            /\ jobs[j].error # None
            /\ Populated(jobs[j].result)

C4_Witness ==
    \E j \in JobIds :
        /\ Ended(j)
        /\ Len(calls[j]) >= 2
        /\ calls[j][1].out = "nonzero"
        /\ calls[j][2] = Call("yt-dlp", 2, "ok")
        /\ jobs[j].state = "done"

\* C5: once make_archive has raised, no Drive call is ever made for the job,
\* and when the thread has ended the job is in state error without a result.
C5_ArchiveFailure ==
    \A j \in JobIds :
        "raise" \in Outcomes(j, {"make_archive"}) =>
            /\ CallsOf(j, DriveOps) = << >>
            /\ Ended(j) => (jobs[j].state = "error" /\ jobs[j].result = None)

C5_Witness ==
    \E j \in JobIds :
        /\ Ended(j)
        /\ "raise" \in Outcomes(j, {"make_archive"})
        /\ jobs[j].state = "error"

\* C6: the state of a job dict only moves along queued -> running -> zipping
\* -> uploading -> done or from running, zipping, uploading to error; done
\* and error are never left.
C6_StateOnlyForward ==
    [][\A j \in DOMAIN jobs \cap DOMAIN jobs' :
          \/ jobs'[j].state = jobs[j].state
          \/ << jobs[j].state, jobs'[j].state >> \in Forward]_vars

\* C7: what GET /status/<job_id> of the dashboard reads from a job file is
\* never a partly written file: it parses, and the answer is the record
\* that the last completed save of that job wrote.
C7_StatusNeverTorn ==
    wresp.text # None =>
        /\ Parseable(wresp.text[1])
        /\ wresp.code = 200
        /\ wresp.body = wsaved[wresp.id]

\* C8: when an executor is through with a job whose record is done or
\* error, the job's download folder is gone: after the thread of
\* download_and_process has ended, and when process_job has returned to
\* worker_loop.
C8_TerminalFolderGone ==
    /\ \A j \in JobIds :
         (Ended(j) /\ jobs[j].state \in {"done", "error"}) => ~folder[j]
    /\ \A j \in JobIds :
         (/\ wpc = "L173"
          /\ wsaved[j] # None
          /\ wsaved[j][1].status \in {"done", "error"}) => ~wfolder[j]

\* C11: a missing token file is not made an error of a job: no job of
\* server.py ends in state error with the message of the missing file, and
\* the worker does not stop over it with a job it claimed left at running.
C11_MissingTokenNotPerJob ==
    ~token =>
        /\ \A j \in DOMAIN jobs :
             ~(/\ jobs[j].state = "error"
               /\ jobs[j].error = Some(Msg("Drive token file not found", 0)))
        /\ \A j \in JobIds :
             ~(/\ wpc = "exit"
               /\ wsaved[j] # None
               /\ wsaved[j][1].status = "running")

\* C12: once the saved status of a job is done or error, worker_loop does
\* not pop its identifier again and its saved status does not become
\* running.
C12_PoppedAtMostOnce ==
    [][\A j \in JobIds :
          (wsaved[j] # None /\ wsaved[j][1].status \in {"done", "error"}) =>
              /\ wsaved'[j][1].status # "running"
              /\ ~(wpc = "L173" /\ wpc' = "L114" /\ wjob'[1].id = j)]_vars

\* C19: a job left at running by a worker that died is not taken up again:
\* worker_loop never pops an identifier whose saved status is running.
C19_CrashedJobNotRetried ==
    [][\A j \in JobIds :
          (wsaved[j] # None /\ wsaved[j][1].status = "running") =>
              ~(wpc = "L173" /\ wpc' = "L114" /\ wjob'[1].id = j)]_vars

\* C13: every job whose file enqueue_job has written eventually has the
\* saved status done or error, as long as the worker process is alive (the
\* runs in which blpop_job raises on a half-written file are left aside).
C13_EveryJobEnds ==
    \A j \in JobIds :
        (wsaved[j] # None) ~>
            \/ wsaved[j] # None /\ wsaved[j][1].status \in {"done", "error"}
            \/ wpc = "crashed"

\* C14: the record a poll of /status returns is the record the last
\* completed _save_job of that job wrote, and it is never in state done
\* without a result.
C14_PollEqualsPersisted ==
    resp.code = 200 =>
        /\ resp.body = saved[resp.id]
        /\ ~(resp.body[1].state = "done" /\ resp.body[1].result = None)

\* C15: when the first yt-dlp run, make_archive, or a Drive call of a job
\* starts, the job's file already holds state running, zipping, uploading
\* respectively.
C15_StatePersistedBeforeStage ==
    [][\A j \in JobIds :
          Len(calls'[j]) > Len(calls[j]) =>
              LET c == calls'[j][Len(calls'[j])]
              IN  /\ saved[j] # None
                  /\ c.op = "yt-dlp" => saved[j][1].state = "running"
                  /\ c.op = "make_archive" => saved[j][1].state = "zipping"
                  /\ c.op \in DriveOps => saved[j][1].state = "uploading"]_vars

C15_Witness ==
    \E j \in JobIds :
        /\ Len(calls[j]) = 3
        /\ calls[j][1].op = "yt-dlp"
        /\ calls[j][2].op = "make_archive"
        /\ calls[j][3] = Call("create_folder", 0, "ok")
        /\ saved[j][1].state = "uploading"

C17_ResultIffDone ==
    \A j \in JobIds :
        saved[j] # None =>
            (saved[j][1].result # None <=> saved[j][1].state = "done")

\* C18: when the last call of an ended thread raised, the job is in state
\* error and error is that call's message, whatever a failed url left
\* there; when no call raised, error is the message of the last url whose
\* yt-dlp run exited non-zero, or None when there was none.
C18_ErrorHoldsTrigger ==
    \A j \in JobIds :
        (Ended(j) /\ calls[j] # << >>) =>
            LET last == calls[j][Len(calls[j])]
                failed == {i \in 1..Len(calls[j]) : calls[j][i].out = "nonzero"}
            IN  /\ last.out = "raise" =>
                       /\ jobs[j].state = "error"
                       /\ jobs[j].error = Some(Msg(last.op, 0))
                /\ "raise" \notin Outcomes(j, AllOps) =>
                       jobs[j].error =
                          IF failed = {} THEN None
                          ELSE Some(Msg("yt-dlp failed",
                                        calls[j][CHOOSE i \in failed :
                                                   \A k \in failed : k <= i].arg))

C18_Witness ==
    \E j \in JobIds :
        /\ Ended(j)
        /\ Len(calls[j]) >= 3
        /\ calls[j][1].out = "nonzero"
        /\ calls[j][Len(calls[j])] = Call("upload_file", 0, "raise")
        /\ jobs[j].error = Some(Msg("upload_file", 0))

\* C20: at most one job of the server is in one of the states running,
\* zipping, uploading at any time.
C20_OneJobAtATime ==
    Cardinality({j \in DOMAIN jobs :
                   jobs[j].state \in {"running", "zipping", "uploading"}}) <= 1

\* C21: no job with an empty urls list is ever created: not in jobs or a
\* job file of server.py, and not in a job file of the dashboard.
C21_NoEmptyUrlsJob ==
    /\ \A j \in DOMAIN jobs : jobs[j].urls # << >>
    /\ \A j \in JobIds : saved[j] # None => saved[j][1].urls # << >>
    /\ wreq # None => wreq[1].urls # << >>
    /\ \A j \in JobIds : wsaved[j] # None => wsaved[j][1].urls # << >>

\* C9: right after a start of the server, GET /jobs shows one job for every
\* file of JOBS_DIR.
C9_StartListsEveryFile ==
    [][(~up /\ up') => {job.id : job \in list_jobs'} = DOMAIN disk']_vars

\* C10: a poll of an identifier that no _save_job ever wrote is answered 404
\* and changes neither jobs nor the files.
C10_NeverPersistedNotFound ==
    [][\A id \in JobIds \cup {Bogus} :
          (status(id) /\ (id \in JobIds => saved[id] = None)) =>
              (resp'.code = 404 /\ UNCHANGED << jobs, disk >>)]_vars

====
